---- MODULE Spec2Model ----
\* A model of the WebM-to-GIF conversion hook (useWebmToGif) and of the way the
\* App component drives it: convert(), cancel(), the frame sampler with its
\* alpha-key mapping, and the events of the video element and of the gif.js
\* encoder that the hook's callbacks react to.
EXTENDS Integers, Sequences, FiniteSets, TLC

\* ---------------------------------------------------------------- bounds

\* Number of convert() calls made on the one hook instance.
MaxConv == 2

ConvIds == 1..MaxConv
\* video.duration in seconds, as the fraction num / den.
DurationValues == { [num |-> 0, den |-> 1], [num |-> 2, den |-> 3],
                    [num |-> 1, den |-> 1] }
FpsValues == {1, 2}
QualityValues == {10}
ThresholdValues == {128, 255}
\* What the settings fields of the App may hold after an edit (e.target.value):
\* <<>> is the empty field, <<n>> the text of the number n.
TypedFps == { <<>>, <<-1>> }
TypedQuality == { <<>>, <<1>>, <<30>>, <<31>>, <<-5>> }
TypedThreshold == { <<>>, <<256>> }
\* video.duration of the clip converted from the settings form.
ShortDurations == { [num |-> 1, den |-> 15] }
\* The clip and the options of the convert() calls made on the hook directly.
HookDurations == { [num |-> 1, den |-> 1] }
HookOptions == [fps |-> 1, quality |-> 10, transparentThreshold |-> 128]
\* navigator.hardwareConcurrency; 0 stands for a host that does not report it.
HardwareConcurrencyValues == {0, 1}
\* The one pixel of a captured frame, as the four bytes of ImageData.data.
RawPixels == { <<0, 255, 0, 255>>, <<10, 20, 30, 0>>,
               <<10, 20, 30, 128>>, <<10, 20, 30, 200>> }

\* ---------------------------------------------------------------- state

VARIABLES
    progress,      \* useState<ConversionProgress>
    isConverting,  \* useState(false)
    cancelledRef,  \* useRef(false)
    gifRef,        \* useRef<GIF | null>: 0 is null, else the conversion whose GIF it is
    nconv,         \* number of convert() calls so far
    conv,          \* per convert() call: the locals of its closure
    promise,       \* per convert() call: the state of the promise it returned
    gif,           \* per convert() call: the GIF encoder object it made
    seeks,         \* per convert() call: the values assigned to video.currentTime
    snaps,         \* per convert() call: the snapshots the sampler passed to setProgress
    cancelPhase,   \* per convert() call: the phase it was in when cancel() first hit it
    videoUrl,      \* per convert() call: the object URL of line 137
    output,        \* per convert() call: the frames of the blob it resolved with
    appOptions     \* App: useState<ConversionOptions> (options), the settings form

vars == <<progress, isConverting, cancelledRef, gifRef, nconv, conv, promise,
          gif, seeks, snaps, cancelPhase, videoUrl, output, appOptions>>

\* ------------------------------------------------- the alpha-key mapping

TRANSPARENT_COLOR == 65280

Shr(x, n) == x \div (2 ^ n)

And255(x) == x % 256

KeyRedFromGreenByte == And255(Shr(TRANSPARENT_COLOR, 8))

\* Line 97.
KeyRed == And255(Shr(TRANSPARENT_COLOR, 16))

\* Line 98.
KeyGreen == And255(Shr(TRANSPARENT_COLOR, 8))

\* Line 99.
KeyBlue == And255(TRANSPARENT_COLOR)

BelowOrEqualThreshold(alpha, transparentThreshold) == alpha <= transparentThreshold

\* Line 96: alpha < transparentThreshold.
BelowThreshold(alpha, transparentThreshold) == alpha < transparentThreshold

MappedAlphaInverted(alpha) == 255 - alpha

\* Line 100: the alpha written to a pixel that is keyed out.
MappedAlpha(alpha) == 255

\* Lines 93-102: the loop over data[j .. j+3]; j is the 0-based byte offset.
RECURSIVE MapFrom(_, _, _)
MapFrom(data, j, transparentThreshold) ==
    IF j + 4 > Len(data) THEN data
    ELSE IF BelowThreshold(data[j + 4], transparentThreshold)
         THEN MapFrom([data EXCEPT ![j + 1] = KeyRed,
                                   ![j + 2] = KeyGreen,
                                   ![j + 3] = KeyBlue,
                                   ![j + 4] = MappedAlpha(data[j + 4])],
                      j + 4, transparentThreshold)
         ELSE MapFrom(data, j + 4, transparentThreshold)

AlphaKeyMap(data, transparentThreshold) == MapFrom(data, 0, transparentThreshold)

\* ------------------------------------------------------- the frame count

TotalFramesRoundedUp(duration, fps) ==
    (duration.num * fps + duration.den - 1) \div duration.den

\* Line 56: Math.floor(duration * fps).
TotalFrames(duration, fps) == (duration.num * fps) \div duration.den

\* ------------------------------------------------ the progress snapshots

\* Lines 30-36. The progress number is the fraction progressNum / progressDen.
IdleProgress ==
    [stage |-> "idle", progressNum |-> 0, progressDen |-> 1,
     framesExtracted |-> 0, totalFrames |-> 0, message |-> <<"">>]

\* Lines 124-130.
LoadingProgress ==
    [stage |-> "extracting", progressNum |-> 0, progressDen |-> 1,
     framesExtracted |-> 0, totalFrames |-> 0, message |-> <<"Loading video...">>]

ExtractingProgressBeforeFrame(i, totalFrames) ==
    [stage |-> "extracting", progressNum |-> i * 50, progressDen |-> totalFrames,
     framesExtracted |-> i, totalFrames |-> totalFrames,
     message |-> <<"Extracting frame", i, "of", totalFrames>>]

\* Lines 106-112, after frame i (0-based): ((i + 1) / totalFrames) * 50.
ExtractingProgress(i, totalFrames) ==
    [stage |-> "extracting", progressNum |-> (i + 1) * 50, progressDen |-> totalFrames,
     framesExtracted |-> i + 1, totalFrames |-> totalFrames,
     message |-> <<"Extracting frame", i + 1, "of", totalFrames>>]

\* Math.round of the fraction num / den: the floor of num / den + 1/2.
Round(num, den) ==
    IF den > 0 THEN (2 * num + den) \div (2 * den)
    ELSE (-2 * num - den) \div (-2 * den)

EncodingProgressWithoutOffset(length, pNum, pDen) ==
    [stage |-> "encoding", progressNum |-> pNum * 50, progressDen |-> pDen,
     framesExtracted |-> length, totalFrames |-> length,
     message |-> <<"Encoding GIF...", (2 * pNum * 100 + pDen) \div (2 * pDen)>>]

EncodingProgressStageExtracting(length, pNum, pDen) ==
    [stage |-> "extracting", progressNum |-> 50 * pDen + pNum * 50, progressDen |-> pDen,
     framesExtracted |-> length, totalFrames |-> length,
     message |-> <<"Encoding GIF...", (2 * pNum * 100 + pDen) \div (2 * pDen)>>]

\* Lines 194-202: the 'progress' handler, for p = pNum / pDen: 50 + p * 50.
EncodingProgress(length, pNum, pDen) ==
    [stage |-> "encoding", progressNum |-> 50 * pDen + pNum * 50, progressDen |-> pDen,
     framesExtracted |-> length, totalFrames |-> length,
     message |-> <<"Encoding GIF...", Round(pNum * 100, pDen)>>]

\* Lines 205-211.
CompleteProgress(length) ==
    [stage |-> "complete", progressNum |-> 100, progressDen |-> 1,
     framesExtracted |-> length, totalFrames |-> length,
     message |-> <<"Conversion complete!">>]

\* Lines 224-230.
ErrorProgress(message) ==
    [stage |-> "error", progressNum |-> 0, progressDen |-> 1,
     framesExtracted |-> 0, totalFrames |-> 0, message |-> <<message>>]

\* ------------------------------------------------- one convert() call

\* App.tsx lines 17-21.
DefaultOptions == [fps |-> 15, quality |-> 10, transparentThreshold |-> 128]

NoOptions == [fps |-> 1, quality |-> 1, transparentThreshold |-> 0]

\* The locals of a convert() call that has not been made.
NotStarted ==
    [pc |-> "idle", options |-> NoOptions, duration |-> [num |-> 0, den |-> 1],
     totalFrames |-> 0, i |-> 0, currentTime |-> [num |-> 0, den |-> 1],
     frames |-> <<>>, raw |-> <<>>]

\* The locals of a convert() call whose promise has settled: nothing refers to
\* them any more.
Settled == [NotStarted EXCEPT !.pc = "done"]

NoGif ==
    [state |-> "none", workers |-> 0, quality |-> 0, delay |-> 0, length |-> 0,
     frames |-> <<>>, imageParts |-> <<>>, finishedFrames |-> 0, finishOrder |-> <<>>]

Max(a, b) == IF a > b THEN a ELSE b

Min(a, b) == IF a < b THEN a ELSE b

\* Line 167: navigator.hardwareConcurrency || 4; 0 stands for a host that
\* does not report it.
Workers(hardwareConcurrency) ==
    IF hardwareConcurrency = 0 THEN 4 ELSE hardwareConcurrency

AddFramesReversed(frames) == [k \in DOMAIN frames |-> Len(frames) + 1 - k]

\* Lines 188-191: the frames are handed to the encoder one by one, in the
\* order of the array; each is named here by its sampling position.
AddFrames(frames) == [k \in DOMAIN frames |-> k]

\* The encoder's frames a worker may be busy with: render() spawns
\* min(workers, frames.length) workers (g.workers) and the frames are started
\* in index order, one per free worker.
ActiveFrames(g) ==
    {k \in 1..Min(g.length, g.finishedFrames + g.workers) : g.imageParts[k] = 0}

\* The encoder keeps a finished frame in the slot of the frame's index.
Collect(imageParts, k, part) == [imageParts EXCEPT ![k] = part]

\* The encoder writes the slots out by index; an empty slot gives nothing.
Merged(imageParts) == SelectSeq(imageParts, LAMBDA part : part # 0)

EncoderQualityNotInverted(quality) == Max(1, Min(30, quality))

\* Line 168.
EncoderQuality(quality) == Max(1, Min(30, 31 - quality))

\* Line 186.
Delay(fps) == Round(1000, fps)

Running(c) == conv[c].pc \notin {"idle", "done"}

Init ==
    /\ progress = IdleProgress
    /\ isConverting = FALSE
    /\ cancelledRef = FALSE
    /\ gifRef = 0
    /\ nconv = 0
    /\ conv = [c \in ConvIds |-> NotStarted]
    /\ promise = [c \in ConvIds |-> "none"]
    /\ gif = [c \in ConvIds |-> NoGif]
    /\ seeks = [c \in ConvIds |-> <<>>]
    /\ snaps = [c \in ConvIds |-> <<>>]
    /\ cancelPhase = [c \in ConvIds |-> "none"]
    /\ videoUrl = [c \in ConvIds |-> "none"]
    /\ output = [c \in ConvIds |-> <<>>]
    /\ appOptions = DefaultOptions

\* Lines 223-233: the catch block of convert().
Catch(c, message) ==
    /\ progress' = ErrorProgress(message)
    /\ isConverting' = FALSE
    /\ promise' = [promise EXCEPT ![c] = message]
    /\ conv' = [conv EXCEPT ![c] = Settled]

CancelNotSeenAfterExtract == FALSE

\* Line 154.
CancelledAfterExtract == cancelledRef

CancelNotSeenAtLoopTop == FALSE

\* Line 73.
CancelledAtLoopTop == cancelledRef

\* Lines 152-222: what convert() does once extractFrames has returned, up to
\* gif.render(), which emits 'progress' with 0.
AfterExtract(c, cv) ==
    /\ videoUrl' = [videoUrl EXCEPT ![c] = "revoked"]
    /\ IF CancelledAfterExtract
       THEN /\ Catch(c, "Conversion cancelled")
            /\ UNCHANGED <<gifRef, gif>>
       ELSE \E frameCtx \in BOOLEAN, hardwareConcurrency \in HardwareConcurrencyValues :
              LET made == [NoGif EXCEPT
                             !.state = "created",
                             !.quality = EncoderQuality(cv.options.quality),
                             !.delay = Delay(cv.options.fps)]
              IN /\ gifRef' = c
                 /\ IF ~frameCtx
                    THEN /\ Catch(c, "Failed to get frame canvas context")
                         /\ gif' = [gif EXCEPT ![c] = made]
                    ELSE /\ gif' = [gif EXCEPT ![c] =
                                      [made EXCEPT
                                         !.state = "running",
                                         !.length = Len(cv.frames),
                                         !.workers = Min(Workers(hardwareConcurrency),
                                                         Len(cv.frames)),
                                         !.frames = AddFrames(cv.frames),
                                         !.imageParts = [k \in DOMAIN cv.frames |-> 0]]]
                         /\ progress' = EncodingProgress(Len(cv.frames), 0, 1)
                         /\ conv' = [conv EXCEPT ![c] = [cv EXCEPT !.pc = "encoding"]]
                         /\ UNCHANGED <<isConverting, promise>>

\* Lines 55 and 77: i * frameInterval, frameInterval being 1 / fps.
SeekTime(i, fps) == [num |-> i * 1, den |-> fps]

\* Lines 72-78 and 115: the top of the sampling loop with the locals cv, the
\* snapshot shown being prog.
LoopTop(c, cv, prog) ==
    IF cv.i < cv.totalFrames
    THEN IF CancelledAtLoopTop
         THEN /\ Catch(c, "Conversion cancelled")
              /\ UNCHANGED <<gifRef, gif, seeks, videoUrl>>
         ELSE /\ seeks' = [seeks EXCEPT ![c] = Append(@, SeekTime(cv.i, cv.options.fps))]
              /\ conv' = [conv EXCEPT ![c] =
                            [cv EXCEPT !.pc = "seeked",
                                       !.currentTime = SeekTime(cv.i, cv.options.fps)]]
              /\ progress' = prog
              /\ UNCHANGED <<isConverting, promise, gifRef, gif, videoUrl>>
    ELSE /\ AfterExtract(c, cv)
         /\ UNCHANGED seeks

AppAlwaysOffersConvert == TRUE

CancelledLeftAsItWas == cancelledRef

\* App.tsx lines 369-387: the Convert button is rendered only while
\* isConverting is false.
AppOffersConvert == ~isConverting

\* Line 122.
CancelledAtStart == FALSE

\* Lines 120-143: convert(file, options) up to the first await. Nothing in it
\* looks at a conversion that is already running.
ConvertCall(options, duration) ==
    /\ nconv < MaxConv
    /\ nconv' = nconv + 1
    /\ cancelledRef' = CancelledAtStart
    /\ isConverting' = TRUE
    /\ progress' = LoadingProgress
    /\ conv' = [conv EXCEPT ![nconv + 1] =
                  [NotStarted EXCEPT !.pc = "loadedmetadata",
                                     !.options = options,
                                     !.duration = duration]]
    /\ promise' = [promise EXCEPT ![nconv + 1] = "pending"]
    /\ videoUrl' = [videoUrl EXCEPT ![nconv + 1] = "created"]
    /\ UNCHANGED <<gifRef, gif, seeks, snaps, cancelPhase, output, appOptions>>

\* convert() as the App calls it, from the Convert button.
Convert(options, duration) ==
    /\ AppOffersConvert
    /\ ConvertCall(options, duration)

\* Lines 139-148: the video reports its metadata; convert() waits for
\* canplaythrough next.
LoadedMetadata(c) ==
    /\ conv[c].pc = "loadedmetadata"
    /\ conv' = [conv EXCEPT ![c].pc = "canplaythrough"]
    /\ UNCHANGED <<progress, isConverting, cancelledRef, gifRef, nconv, promise,
                   gif, seeks, snaps, cancelPhase, videoUrl, output, appOptions>>

\* Lines 141 and 147: the video reports an error during either wait.
LoadError(c) ==
    /\ conv[c].pc \in {"loadedmetadata", "canplaythrough"}
    /\ Catch(c, "Failed to load video")
    /\ UNCHANGED <<cancelledRef, gifRef, nconv, gif, seeks, snaps, cancelPhase,
                   videoUrl, output, appOptions>>

ReadyOnMetadata(pc) == pc \in {"loadedmetadata", "canplaythrough"}

\* Lines 139-150: extractFrames is called once both waits are over, the one
\* for loadedmetadata and then the one for canplaythrough.
ReadyToExtract(pc) == pc = "canplaythrough"

\* Lines 146-150 and 53-78: canplaythrough; extractFrames starts and runs to
\* its first seek.
CanPlayThrough(c) ==
    /\ ReadyToExtract(conv[c].pc)
    /\ \E ctx \in BOOLEAN :
         IF ~ctx
         THEN /\ Catch(c, "Failed to get canvas context")
              /\ UNCHANGED <<gifRef, gif, seeks, videoUrl>>
         ELSE LoopTop(c, [conv[c] EXCEPT
                            !.totalFrames = TotalFrames(conv[c].duration,
                                                        conv[c].options.fps),
                            !.i = 0],
                      progress)
    /\ UNCHANGED <<cancelledRef, nconv, snaps, cancelPhase, output, appOptions>>

\* Lines 80-113: the seek of frame i has ended; the frame is captured, mapped,
\* pushed and reported, and the loop goes round.
Seeked(c) ==
    /\ conv[c].pc = "seeked"
    /\ \E data \in RawPixels :
         LET cv == conv[c]
             snapshot == ExtractingProgress(cv.i, cv.totalFrames)
             imageData == AlphaKeyMap(data, cv.options.transparentThreshold)
         IN /\ snaps' = [snaps EXCEPT ![c] = Append(@, snapshot)]
            /\ LoopTop(c, [cv EXCEPT !.frames = Append(@, imageData),
                                     !.raw = Append(@, [data |-> data,
                                                        time |-> cv.currentTime]),
                                     !.i = cv.i + 1],
                       snapshot)
    /\ UNCHANGED <<cancelledRef, nconv, cancelPhase, output, appOptions>>

\* gif.js: a worker has finished a frame; 'progress' is emitted with
\* finishedFrames / frames.length and, after the last frame, 'finished'
\* (lines 194-215).
FrameFinished(c) ==
    /\ gif[c].state = "running"
    /\ \E k \in ActiveFrames(gif[c]) :
         LET g == gif[c]
             finishedFrames == g.finishedFrames + 1
             imageParts == Collect(g.imageParts, k, g.frames[k])
             length == Len(conv[c].frames)
         IN IF \E j \in DOMAIN imageParts : imageParts[j] = 0
            THEN /\ gif' = [gif EXCEPT ![c].finishedFrames = finishedFrames,
                                       ![c].imageParts = imageParts,
                                       ![c].finishOrder = Append(@, k)]
                 /\ progress' = EncodingProgress(length, finishedFrames, g.length)
                 /\ UNCHANGED <<isConverting, gifRef, promise, conv, output>>
            ELSE /\ gif' = [gif EXCEPT ![c] =
                              [NoGif EXCEPT !.state = "finished",
                                            !.finishOrder = Append(g.finishOrder, k)]]
                 /\ progress' = CompleteProgress(length)
                 /\ isConverting' = FALSE
                 /\ gifRef' = 0
                 /\ promise' = [promise EXCEPT ![c] = "blob"]
                 /\ output' = [output EXCEPT ![c] = Merged(imageParts)]
                 /\ conv' = [conv EXCEPT ![c] = Settled]
    /\ UNCHANGED <<cancelledRef, nconv, seeks, snaps, cancelPhase, videoUrl, appOptions>>

\* The phase of a running convert() call.
Phase(c) ==
    CASE conv[c].pc \in {"loadedmetadata", "canplaythrough"} -> "loading"
      [] conv[c].pc = "seeked" -> "extracting"
      [] conv[c].pc = "encoding" -> "encoding"
      [] OTHER -> "none"

\* What cancel() reads and writes.
Hook ==
    [cancelledRef |-> cancelledRef, gifRef |-> gifRef, gif |-> gif,
     promise |-> promise, conv |-> conv, progress |-> progress,
     isConverting |-> isConverting]

\* Lines 41-46: cancel() on the hook state h. gif.abort() ends the encoder's
\* workers and emits 'abort', whose handler (lines 217-219) rejects the promise.
\* Nothing reads the frames of an aborted encoder again: they are dropped.
CancelOn(h) ==
    LET g == h.gifRef
        rejects == /\ g # 0
                   /\ h.gif[g].state \in {"running", "aborted"}
                   /\ h.promise[g] = "pending"
    IN [h EXCEPT
          !.cancelledRef = TRUE,
          !.gif = IF g # 0 /\ h.gif[g].state = "running"
                  THEN [h.gif EXCEPT ![g] = [NoGif EXCEPT !.state = "aborted"]]
                  ELSE h.gif,
          !.promise = IF rejects
                      THEN [h.promise EXCEPT ![g] = "Conversion cancelled"]
                      ELSE h.promise,
          !.conv = IF rejects THEN [h.conv EXCEPT ![g] = Settled] ELSE h.conv]

\* The Cancel button, or any other caller of cancel().
Cancel ==
    /\ cancelledRef' = CancelOn(Hook).cancelledRef
    /\ gifRef' = CancelOn(Hook).gifRef
    /\ gif' = CancelOn(Hook).gif
    /\ promise' = CancelOn(Hook).promise
    /\ conv' = CancelOn(Hook).conv
    /\ progress' = CancelOn(Hook).progress
    /\ isConverting' = CancelOn(Hook).isConverting
    /\ cancelPhase' = [c \in ConvIds |->
                         IF cancelPhase[c] = "none" THEN Phase(c) ELSE cancelPhase[c]]
    /\ UNCHANGED <<nconv, seeks, snaps, videoUrl, output, appOptions>>

Next ==
    \/ \E fps \in FpsValues, quality \in QualityValues,
          transparentThreshold \in ThresholdValues, duration \in DurationValues :
         Convert([fps |-> fps, quality |-> quality,
                  transparentThreshold |-> transparentThreshold], duration)
    \/ \E c \in ConvIds : LoadedMetadata(c)
    \/ \E c \in ConvIds : LoadError(c)
    \/ \E c \in ConvIds : CanPlayThrough(c)
    \/ \E c \in ConvIds : Seeked(c)
    \/ \E c \in ConvIds : FrameFinished(c)
    \/ Cancel

Spec == Init /\ [][Next]_vars

\* ------------------------------------------------- the settings form

\* Number(e.target.value): the empty field gives 0.
NumberOf(value) == IF value = <<>> THEN 0 ELSE value[1]

\* Number(e.target.value) || default; min and max are attributes of the
\* <input>, which do not change what onChange receives.
NumberOr(value, default) ==
    IF NumberOf(value) = 0 THEN default ELSE NumberOf(value)

\* App.tsx lines 289-300; the field is disabled while converting.
SetFps(value) ==
    /\ ~isConverting
    /\ appOptions' = [appOptions EXCEPT !.fps = NumberOr(value, 15)]
    /\ UNCHANGED <<progress, isConverting, cancelledRef, gifRef, nconv, conv, promise,
                   gif, seeks, snaps, cancelPhase, videoUrl, output>>

\* App.tsx lines 307-321.
SetQuality(value) ==
    /\ ~isConverting
    /\ appOptions' = [appOptions EXCEPT !.quality = NumberOr(value, 10)]
    /\ UNCHANGED <<progress, isConverting, cancelledRef, gifRef, nconv, conv, promise,
                   gif, seeks, snaps, cancelPhase, videoUrl, output>>

\* App.tsx lines 328-342.
SetThreshold(value) ==
    /\ ~isConverting
    /\ appOptions' = [appOptions EXCEPT !.transparentThreshold = NumberOr(value, 128)]
    /\ UNCHANGED <<progress, isConverting, cancelledRef, gifRef, nconv, conv, promise,
                   gif, seeks, snaps, cancelPhase, videoUrl, output>>

\* App.tsx lines 89-102: the Convert button passes the current settings.
HandleConvert(duration) == Convert(appOptions, duration)

SettingsNext ==
    \/ \E value \in TypedFps : SetFps(value)
    \/ \E value \in TypedQuality : SetQuality(value)
    \/ \E value \in TypedThreshold : SetThreshold(value)
    \/ \E duration \in ShortDurations : HandleConvert(duration)
    \/ \E c \in ConvIds : LoadedMetadata(c)
    \/ \E c \in ConvIds : LoadError(c)
    \/ \E c \in ConvIds : CanPlayThrough(c)
    \/ \E c \in ConvIds : Seeked(c)
    \/ \E c \in ConvIds : FrameFinished(c)
    \/ Cancel

\* The hook driven by the App's settings form.
SettingsSpec == Init /\ [][SettingsNext]_vars

\* ------------------------------------------- the hook without the App

\* convert() and cancel() called by any user of the hook, at any time.
HookNext ==
    \/ \E duration \in HookDurations : ConvertCall(HookOptions, duration)
    \/ \E c \in ConvIds : LoadedMetadata(c)
    \/ \E c \in ConvIds : LoadError(c)
    \/ \E c \in ConvIds : CanPlayThrough(c)
    \/ \E c \in ConvIds : Seeked(c)
    \/ \E c \in ConvIds : FrameFinished(c)
    \/ Cancel

HookSpec == Init /\ [][HookNext]_vars

\* The video element and the encoder deliver the events the hook waits for;
\* nothing obliges the user to press a button.
Fairness ==
    /\ \A c \in ConvIds : WF_vars(LoadedMetadata(c) \/ LoadError(c))
    /\ \A c \in ConvIds : WF_vars(CanPlayThrough(c) \/ LoadError(c))
    /\ \A c \in ConvIds : WF_vars(Seeked(c))
    /\ \A c \in ConvIds : WF_vars(FrameFinished(c))

FairSpec == Spec /\ Fairness

\* ------------------------------------------------------------ properties

HasSettled(c) == promise[c] \notin {"none", "pending"}

\* The frames a convert() call holds: those sampled so far.
FrameIndexes(c) == DOMAIN conv[c].frames

\* C1: every conversion ends with the progress state at stage 'complete' or
\* 'error': once the promise of the latest convert() call has settled, whatever
\* the failure, the stage is not left at 'extracting' or 'encoding'.
C1_SettledMeansFinalSnapshot ==
    \A c \in ConvIds :
        (c = nconv /\ HasSettled(c)) => progress.stage \in {"complete", "error"}

\* C2: a cancel() made while a conversion is extracting or encoding makes its
\* promise reject with 'Conversion cancelled': never a blob, at once when
\* encoding, at the hook's next step when extracting, and in any case
\* eventually.
C2_CancelRejects ==
    /\ [](\A c \in ConvIds :
            /\ cancelPhase[c] \in {"extracting", "encoding"} => promise[c] # "blob"
            /\ cancelPhase[c] = "encoding" => promise[c] = "Conversion cancelled")
    /\ [][\A c \in ConvIds :
            (cancelPhase[c] = "extracting" /\ conv'[c] # conv[c])
                => promise'[c] = "Conversion cancelled"]_vars
    /\ \A c \in ConvIds :
         (cancelPhase[c] \in {"extracting", "encoding"})
             ~> (promise[c] = "Conversion cancelled")

C2_Witness ==
    /\ cancelPhase[1] = "extracting" /\ promise[1] = "Conversion cancelled"
    /\ cancelPhase[2] = "encoding" /\ promise[2] = "Conversion cancelled"

C4_KeyColourBelowThreshold ==
    \A c \in ConvIds : \A k \in FrameIndexes(c) :
        LET in == conv[c].raw[k].data
            out == conv[c].frames[k]
        IN IF in[4] < conv[c].options.transparentThreshold
           THEN <<out[1], out[2], out[3]>> = <<0, 255, 0>>
           ELSE <<out[1], out[2], out[3]>> = <<in[1], in[2], in[3]>>

C4_Witness ==
    \E c \in ConvIds : \E k, m \in FrameIndexes(c) :
        /\ conv[c].raw[k].data[4] < conv[c].options.transparentThreshold
        /\ <<conv[c].raw[k].data[1], conv[c].raw[k].data[2]>> # <<0, 255>>
        /\ conv[c].raw[m].data[4] = conv[c].options.transparentThreshold
        /\ conv[c].frames[m][1] = 10

\* floor(num * fps / den), said without division.
FloorOf(duration, fps) ==
    CHOOSE n \in 0..(duration.num * fps) :
        /\ n * duration.den <= duration.num * fps
        /\ (n + 1) * duration.den > duration.num * fps

\* The fraction a is smaller than the fraction b.
Before(a, b) == a.num * b.den < b.num * a.den

\* C5: the sampler seeks to i / fps for i = 0, 1, ... in strictly increasing
\* order, captures each frame at the time it sought, and, when it returns
\* (the conversion is then encoding), has made exactly floor(duration * fps)
\* seeks and holds exactly that many frames.
C5_SamplerFrames ==
    \A c \in ConvIds :
        LET fps == conv[c].options.fps
            total == FloorOf(conv[c].duration, fps)
        IN /\ Running(c) =>
                \A k \in DOMAIN seeks[c] :
                    seeks[c][k].num * fps = (k - 1) * seeks[c][k].den
           /\ \A k \in DOMAIN seeks[c] :
                k > 1 => Before(seeks[c][k - 1], seeks[c][k])
           /\ conv[c].pc = "seeked" =>
                /\ Len(seeks[c]) <= total
                /\ Len(conv[c].frames) = Len(seeks[c]) - 1
           /\ \A k \in FrameIndexes(c) : conv[c].raw[k].time = seeks[c][k]
           /\ conv[c].pc = "encoding" =>
                /\ conv[c].totalFrames = total
                /\ Len(seeks[c]) = total
                /\ Len(conv[c].frames) = total
                /\ gif[c].length = total

C5_Witness ==
    \E c \in ConvIds :
        /\ conv[c].pc = "encoding"
        /\ conv[c].duration = [num |-> 2, den |-> 3]
        /\ conv[c].options.fps = 2
        /\ Len(conv[c].frames) = 1
        /\ \E d \in ConvIds :
             /\ d # c
             /\ Len(seeks[d]) = 2

\* C6: at most one conversion runs at a time: a convert() call happens only
\* when no earlier call is still running.
C6_OneConversionAtATime ==
    Cardinality({c \in ConvIds : Running(c)}) <= 1

C6_Witness ==
    /\ nconv = 2
    /\ Running(2)
    /\ promise[1] = "Conversion cancelled"

\* C7: a conversion whose totalFrames is 0 still ends: once it is encoding,
\* convert() eventually settles, by rejecting or by resolving with an output.
C7_ZeroFramesTerminates ==
    \A c \in ConvIds :
        (conv[c].pc = "encoding" /\ conv[c].totalFrames = 0) ~> HasSettled(c)

\* C8: the stage changes only forward, extracting -> encoding -> complete or
\* error (or extracting -> error); any other change of stage is a new
\* convert() call setting it to 'extracting'.
C8_StageOrder ==
    [][progress'.stage # progress.stage =>
         \/ nconv' # nconv /\ progress'.stage = "extracting"
         \/ <<progress.stage, progress'.stage>> \in
               { <<"extracting", "encoding">>, <<"extracting", "error">>,
                 <<"encoding", "complete">>, <<"encoding", "error">> }]_vars

C8_Witness ==
    /\ nconv = 2
    /\ promise[1] = "Failed to get frame canvas context"
    /\ progress.stage = "complete"

\* C9: cancel() twice is cancel() once; outside a running conversion it leaves
\* the progress state, isConverting and every promise as they were; and a
\* convert() call that cancel() never hit while it ran does not fail with
\* 'Conversion cancelled', even when the flag was set as the call was made.
C9_CancelIdempotentNoOp ==
    /\ CancelOn(CancelOn(Hook)) = CancelOn(Hook)
    /\ (\A c \in ConvIds : ~Running(c)) =>
          /\ CancelOn(Hook).progress = progress
          /\ CancelOn(Hook).isConverting = isConverting
          /\ CancelOn(Hook).promise = promise
    /\ \A c \in ConvIds :
          cancelPhase[c] = "none" => promise[c] # "Conversion cancelled"

C9_Witness ==
    /\ nconv = 1
    /\ promise[1] = "blob"
    /\ cancelPhase[1] = "none"
    /\ cancelledRef
    /\ progress.stage = "complete"

C11_UrlRevokedOnEveryExit ==
    \A c \in ConvIds : HasSettled(c) => videoUrl[c] = "revoked"

\* C12: once a conversion has ended (success, failure or cancellation) none of
\* its encoder's workers is running and gifRef no longer refers to its encoder.
C12_EncoderReleasedOnEveryExit ==
    \A c \in ConvIds :
        HasSettled(c) => gif[c].state # "running" /\ gifRef # c

\* C13: whatever the pool size and the order in which the workers finish, the
\* merged output lists the frames in sampling order, and it has exactly as
\* many frames as were sampled.
C13_OutputInSamplingOrder ==
    \A c \in ConvIds :
        promise[c] = "blob" =>
            /\ Len(output[c]) = Len(snaps[c])
            /\ \A k \in DOMAIN output[c] : output[c][k] = k

\* Two frames, the second finished first, and the conversion resolved.
C13_Witness ==
    \E c \in ConvIds :
        /\ promise[c] = "blob"
        /\ Len(output[c]) = 2
        /\ gif[c].finishOrder = <<2, 1>>

\* C14: mapping a frame that has already been mapped, with the same threshold,
\* changes nothing: the alpha-key mapping is idempotent.
C14_AlphaKeyIdempotent ==
    \A c \in ConvIds :
        Running(c) =>
            \A k \in DOMAIN conv[c].frames :
                LET transparentThreshold == conv[c].options.transparentThreshold
                    once == AlphaKeyMap(conv[c].raw[k].data, transparentThreshold)
                IN /\ conv[c].frames[k] = once
                   /\ AlphaKeyMap(once, transparentThreshold) = once

\* A captured frame whose pixel was keyed out, at the highest threshold.
C14_Witness ==
    \E c \in ConvIds :
        /\ Running(c)
        /\ conv[c].options.transparentThreshold = 255
        /\ \E k \in DOMAIN conv[c].frames :
             /\ conv[c].raw[k].data[4] = 128
             /\ conv[c].frames[k] # conv[c].raw[k].data

\* C15: the snapshot published after frame i (0-based) has stage 'extracting',
\* progress (i+1)/totalFrames*50 and framesExtracted i+1; after the last frame
\* progress is exactly 50 and framesExtracted equals totalFrames. One snapshot
\* is published per captured frame, and it is the current one while the next
\* seek is awaited.
C15_SnapshotAfterEachFrame ==
    \A c \in ConvIds :
        /\ \A k \in DOMAIN snaps[c] :
             LET snapshot == snaps[c][k]
             IN /\ snapshot.stage = "extracting"
                /\ snapshot.framesExtracted = k
                /\ snapshot.totalFrames >= k
                /\ snapshot.progressNum * snapshot.totalFrames
                     = k * 50 * snapshot.progressDen
                /\ k = snapshot.totalFrames =>
                     /\ snapshot.progressNum = 50 * snapshot.progressDen
                     /\ snapshot.framesExtracted = snapshot.totalFrames
                /\ Running(c) => snapshot.totalFrames = conv[c].totalFrames
        /\ Running(c) => Len(snaps[c]) = Len(conv[c].frames)
        /\ (conv[c].pc = "seeked" /\ conv[c].i >= 1) =>
             /\ Len(snaps[c]) = conv[c].i
             /\ progress = snaps[c][conv[c].i]

\* Both frames of a two-frame clip have been captured and reported.
C15_Witness ==
    \E c \in ConvIds :
        /\ conv[c].pc = "encoding"
        /\ conv[c].totalFrames = 2
        /\ Len(snaps[c]) = 2

\* The progress number is within lo..hi.
ProgressWithin(lo, hi) ==
    /\ progress.progressDen > 0
    /\ lo * progress.progressDen <= progress.progressNum
    /\ progress.progressNum <= hi * progress.progressDen

\* C16: progress is always within 0..100 and framesExtracted never exceeds
\* totalFrames; in stage 'extracting' progress is within 0..50 and in stage
\* 'encoding' it is 50 + p*50, within 50..100, p being the encoder's finished
\* share; within either stage it never decreases; in stage 'complete' it is
\* 100 and framesExtracted = totalFrames = the number of frames sampled.
C16_ProgressAccounting ==
    /\ [](/\ ProgressWithin(0, 100)
          /\ progress.framesExtracted <= progress.totalFrames
          /\ progress.stage = "extracting" => ProgressWithin(0, 50)
          /\ progress.stage = "encoding" =>
               /\ ProgressWithin(50, 100)
               /\ \A c \in ConvIds :
                    (gifRef = c /\ gif[c].state = "running" /\ gif[c].length > 0) =>
                       progress.progressNum * gif[c].length =
                         (50 * gif[c].length + gif[c].finishedFrames * 50)
                           * progress.progressDen
          /\ progress.stage = "complete" =>
               /\ ProgressWithin(100, 100)
               /\ progress.framesExtracted = progress.totalFrames
               /\ progress.totalFrames = Len(snaps[nconv]))
    /\ [][(progress'.stage = progress.stage
             /\ progress.stage \in {"extracting", "encoding"}) =>
            progress'.progressNum * progress.progressDen
              >= progress.progressNum * progress'.progressDen]_vars

\* Half of the frames encoded: progress 75 in stage 'encoding'.
C16_Witness ==
    /\ progress.stage = "encoding"
    /\ progress.progressNum = 75 * progress.progressDen
    /\ progress.framesExtracted = 2

\* C17: whatever is typed into the settings fields, the options a conversion
\* is started with have fps in 1..30, quality in 1..30 and threshold in 0..255.
C17_OptionsInRange ==
    \A c \in ConvIds :
        Running(c) =>
            /\ conv[c].options.fps \in 1..30
            /\ conv[c].options.quality \in 1..30
            /\ conv[c].options.transparentThreshold \in 0..255

\* C18 as stated: a conversion that cancel() hit while it waited for the seek
\* of frame i fails without capturing frame i, so without the snapshot with
\* framesExtracted = i + 1.
C18_CancelDuringSeekSkipsFrame ==
    \A c \in ConvIds :
        (cancelPhase[c] = "extracting" /\ HasSettled(c)) =>
            /\ promise[c] = "Conversion cancelled"
            /\ Len(snaps[c]) = Len(seeks[c]) - 1

\* C18: a conversion that cancel() hit while it waited for the seek of frame i
\* fails with 'Conversion cancelled' in the step that ends the wait; that step
\* still captures frame i and publishes its snapshot (framesExtracted = i + 1),
\* and no seek for frame i + 1 is ever issued.
C18_CancelDuringSeekStopsAfterFrame ==
    /\ [](\A c \in ConvIds :
            cancelPhase[c] = "extracting" =>
                \/ /\ conv[c].pc = "seeked"
                   /\ promise[c] = "pending"
                   /\ Len(snaps[c]) = Len(seeks[c]) - 1
                \/ /\ promise[c] = "Conversion cancelled"
                   /\ Len(snaps[c]) = Len(seeks[c])
                   /\ snaps[c][Len(snaps[c])].framesExtracted = Len(seeks[c]))
    /\ [][\A c \in ConvIds :
            cancelPhase[c] = "extracting" =>
                /\ seeks'[c] = seeks[c]
                /\ conv'[c] # conv[c] => promise'[c] = "Conversion cancelled"]_vars

\* cancel() during the first seek of a two-frame clip: frame 0 captured and
\* reported, the conversion rejected, one seek only.
C18_Witness ==
    \E c \in ConvIds :
        /\ cancelPhase[c] = "extracting"
        /\ promise[c] = "Conversion cancelled"
        /\ Len(seeks[c]) = 1
        /\ Len(snaps[c]) = 1
        /\ snaps[c][1].totalFrames = 2

\* C19: a conversion waits for loadedmetadata and then for canplaythrough, in
\* that order, and issues its first seek only in the step that ends the second
\* wait; until then nothing is sampled and no encoder exists. A video error
\* during loading rejects with 'Failed to load video', with no frame sampled,
\* no encoder created and stage 'error'.
C19_LoadingGatesExtraction ==
    /\ [](\A c \in ConvIds :
            /\ conv[c].pc \in {"loadedmetadata", "canplaythrough"} =>
                 seeks[c] = <<>> /\ snaps[c] = <<>> /\ gif[c] = NoGif
            /\ promise[c] = "Failed to load video" =>
                 /\ seeks[c] = <<>> /\ snaps[c] = <<>> /\ gif[c] = NoGif
                 /\ c = nconv => progress = ErrorProgress("Failed to load video"))
    /\ [][\A c \in ConvIds :
            /\ (seeks[c] = <<>> /\ seeks'[c] # <<>>) => conv[c].pc = "canplaythrough"
            /\ (conv[c].pc # "canplaythrough" /\ conv'[c].pc = "canplaythrough") =>
                 conv[c].pc = "loadedmetadata"
            /\ (conv[c].pc # "loadedmetadata" /\ conv'[c].pc = "loadedmetadata") =>
                 conv[c].pc = "idle"]_vars

\* One conversion failed to load; the next one got as far as its first seek.
C19_Witness ==
    /\ nconv = 2
    /\ promise[1] = "Failed to load video"
    /\ conv[2].pc = "seeked"
    /\ Len(seeks[2]) = 1

\* C20: the encoder is made with work parameter 31 - q for a quality setting
\* q in 1..30, which is within 1..30 and strictly decreasing in q; for any
\* other q it is clamped into 1..30 (1 above the range, 30 below it).
C20_QualityInverseClamped ==
    /\ \A q \in 1..29 : EncoderQuality(q) > EncoderQuality(q + 1)
    /\ \A c \in ConvIds :
         (Running(c) /\ gif[c].state = "running") =>
             LET q == conv[c].options.quality
             IN /\ gif[c].quality \in 1..30
                /\ q \in 1..30 => gif[c].quality = 31 - q
                /\ q > 30 => gif[c].quality = 1
                /\ q < 1 => gif[c].quality = 30

\* An encoder running with a quality setting above the range.
C20_Witness ==
    \E c \in ConvIds :
        /\ Running(c)
        /\ gif[c].state = "running"
        /\ conv[c].options.quality = 31
        /\ gif[c].quality = 1

\* C21 as stated: in every mapped frame a pixel has RGB (0, 255, 0), the key
\* colour, only if its input alpha was below the threshold.
C21_KeyColourOnlyIfKeyedOut ==
    \A c \in ConvIds : \A k \in FrameIndexes(c) :
        LET in == conv[c].raw[k].data
            out == conv[c].frames[k]
        IN <<out[1], out[2], out[3]>> = <<0, 255, 0>> =>
             in[4] < conv[c].options.transparentThreshold

\* C21 as amended: in every mapped frame a pixel has the key colour only if its
\* input alpha was below the threshold or its input colour was the key colour
\* already; a kept pixel that came in with the key colour goes out with it.
C21_KeyColourOnlyIfKeyedOutOrKeyIn ==
    \A c \in ConvIds : \A k \in FrameIndexes(c) :
        LET in == conv[c].raw[k].data
            out == conv[c].frames[k]
            keyedOut == in[4] < conv[c].options.transparentThreshold
            keyIn == <<in[1], in[2], in[3]>> = <<0, 255, 0>>
        IN /\ <<out[1], out[2], out[3]>> = <<0, 255, 0>> => (keyedOut \/ keyIn)
           /\ (keyIn /\ ~keyedOut) => out = in

\* An opaque pixel of the key colour, kept, next to a keyed-out one.
C21_Witness ==
    \E c \in ConvIds : \E k, m \in FrameIndexes(c) :
        /\ conv[c].raw[k].data = <<0, 255, 0, 255>>
        /\ conv[c].options.transparentThreshold = 128
        /\ conv[c].frames[k] = <<0, 255, 0, 255>>
        /\ conv[c].raw[m].data[4] = 0
        /\ conv[c].frames[m] = <<0, 255, 0, 255>>

\* C22: isConverting is true while a convert() call is running, and false once
\* the promise of the latest convert() call has settled, whatever the outcome.
C22_IsConvertingTracksConversion ==
    \A c \in ConvIds :
        /\ Running(c) => isConverting
        /\ (c = nconv /\ HasSettled(c)) => ~isConverting

\* C23: a conversion that cancel() hit while it was running never resolves
\* with a blob, also when convert() is called again before it has ended.
C23_CancelledNeverCompletes ==
    \A c \in ConvIds : cancelPhase[c] # "none" => promise[c] # "blob"

====
